---- MODULE Spec2Model ----
(***************************************************************************)
(* State-machine model of two programs of the repository:                  *)
(*   - the ERC contract indexer's ContractScannerService                   *)
(*     (tools/erc-repository-indexer/.../services/contractScanner.ts), and *)
(*   - the dapp playground's wallet API                                    *)
(*     (system-contract-dapp-playground/src/api/wallet/index.ts).          *)
(* A behaviour is a run of one of the two programs (variable program).     *)
(***************************************************************************)
EXTENDS Integers, Sequences, FiniteSets, TLC

VARIABLES
    program,   \* which program this behaviour is a run of: "indexer" or "dapp"
    service,   \* the ContractScannerService instance (its three readonly fields)
    ledger,    \* number of contracts the mirror node holds (ids 1..ledger)
    inv,       \* per caller: the running operation invocation (its async frame + log counters)
    net,       \* HTTP requests sent and not yet answered
    scan,      \* the scan loop that drives fetchContracts over the whole contract list
    wallet     \* the dapp's running wallet operation and the provider requests it sent

vars == <<program, service, ledger, inv, net, scan, wallet>>

----------------------------------------------------------------------------
(* Bounds of the model *)

\* the mirror node answers at most Max429 times HTTP 429 to one operation invocation
Max429 == 2
\* the mirror node holds at most MaxContracts contracts
MaxContracts == 3
\* the page-size bound given to the constructor is in 1..MaxLimit
MaxLimit == 2

----------------------------------------------------------------------------
(* JavaScript values *)

Null == [t |-> "null"]
Undefined == [t |-> "undefined"]
Cursor(k) == [t |-> "cursor", after |-> k]
ContractId(k) == [t |-> "id", num |-> k]
CallData(k) == [t |-> "callData", to |-> ContractId(k), data |-> "0x06fdde03"]

Return(v) == [kind |-> "return", value |-> v]
Throw(e) == [kind |-> "throw", error |-> e]
Pending == [kind |-> "pending"]

\* the callers of the service: the scan loop and one independent direct caller
Callers == {"scan", "direct"}

Methods == {"fetchContracts", "fetchContractObject", "contractCallRequest"}

----------------------------------------------------------------------------
(* constants and helpers of ../utils/constants and ../utils/helper *)

GET_CONTRACT_ENDPOINT == "/api/v1/contracts"
CONTRACT_CALL_ENDPOINT == "/api/v1/contracts/call"
RETRY_DELAY_MS == "RETRY_DELAY_MS"

\* Helper.buildUrl: the list URL, from the page-size bound and the cursor (omitted when none)
buildUrl(next, scanContractLimit) ==
    [path |-> GET_CONTRACT_ENDPOINT, limit |-> scanContractLimit, next |-> next]

\* Helper.buildAxiosClient: one client per base URL
buildAxiosClient(mirrorNodeUrl, mirrorNodeUrlWeb3) ==
    [mirrorNodeRestClient |-> [baseURL |-> mirrorNodeUrl],
     mirrorNodeWeb3Client |-> [baseURL |-> mirrorNodeUrlWeb3]]

----------------------------------------------------------------------------
(* ContractScannerService *)

\* constructor
ContractScannerService(mirrorNodeUrl, mirrorNodeUrlWeb3, scanContractLimit) ==
    LET mirrorNodeClients == buildAxiosClient(mirrorNodeUrl, mirrorNodeUrlWeb3)
    IN  [mirrorNodeRestClient |-> mirrorNodeClients.mirrorNodeRestClient,
         mirrorNodeWeb3Client |-> mirrorNodeClients.mirrorNodeWeb3Client,
         scanContractLimit |-> scanContractLimit]

\* fetchContracts building its URL without the cursor it was given
fetchContracts_IgnoresNext(this, next) ==
    [client |-> this.mirrorNodeRestClient, verb |-> "GET",
     url |-> buildUrl(Null, this.scanContractLimit), body |-> Null]

\* fetchContracts building its URL with a page size one above the configured bound
fetchContracts_OverLimit(this, next) ==
    [client |-> this.mirrorNodeRestClient, verb |-> "GET",
     url |-> buildUrl(next, this.scanContractLimit + 1), body |-> Null]

\* fetchContracts, up to its await: this.mirrorNodeRestClient.get(getAllContractPath)
fetchContracts(this, next) ==
    [client |-> this.mirrorNodeRestClient, verb |-> "GET",
     url |-> buildUrl(next, this.scanContractLimit), body |-> Null]

\* fetchContractObject, up to its await: this.mirrorNodeRestClient.get(`${GET_CONTRACT_ENDPOINT}/${contractId}`)
fetchContractObject(this, contractId) ==
    [client |-> this.mirrorNodeRestClient, verb |-> "GET",
     url |-> [path |-> GET_CONTRACT_ENDPOINT, id |-> contractId], body |-> Null]

\* contractCallRequest posting on the REST client
contractCallRequest_OnRestClient(this, callData) ==
    [client |-> this.mirrorNodeRestClient, verb |-> "POST",
     url |-> [path |-> CONTRACT_CALL_ENDPOINT], body |-> callData]

\* contractCallRequest, up to its await: this.mirrorNodeWeb3Client.post(CONTRACT_CALL_ENDPOINT, callData)
contractCallRequest(this, callData) ==
    [client |-> this.mirrorNodeWeb3Client, verb |-> "POST",
     url |-> [path |-> CONTRACT_CALL_ENDPOINT], body |-> callData]

\* method.call(this, param): the request the called method sends before it suspends
SendOf(this, method, param) ==
    CASE method = "fetchContracts" -> fetchContracts(this, param)
      [] method = "fetchContractObject" -> fetchContractObject(this, param)
      [] method = "contractCallRequest" -> contractCallRequest(this, param)

\* an axios rejection: an HTTP error status, or a network error without a response
AxiosError(status) == [name |-> "AxiosError", response |-> [status |-> status]]
NetworkError == [name |-> "AxiosError"]
TypeError == [name |-> "TypeError"]

\* (error as AxiosError).response?.status === status
StatusIs(error, status) ==
    /\ "response" \in DOMAIN error
    /\ error.response.status = status

\* the try block of each method once the awaited promise has settled
TryBlock(method, settled) ==
    IF settled.kind = "throw" THEN settled
    ELSE IF method = "contractCallRequest"
         THEN \* return response.data.result
              IF settled.value.data \in {Null, Undefined} THEN Throw(TypeError)
              ELSE IF "result" \in DOMAIN settled.value.data
                   THEN Return(settled.value.data.result)
                   ELSE Return(Undefined)
         ELSE \* return response.data
              Return(settled.value.data)

\* handleAxiosError retrying without the parameter it was given
handleAxiosError_DropsParam(error, retryMethod, param) ==
    IF StatusIs(error, 429)
    THEN [kind |-> "retry", notices |-> 1, errors |-> 0, wait |-> RETRY_DELAY_MS,
          retryMethod |-> retryMethod, param |-> Null]
    ELSE [kind |-> "return", notices |-> 0,
          errors |-> IF ~StatusIs(error, 400) /\ retryMethod # "contractCallRequest"
                     THEN 1 ELSE 0,
          value |-> Null]

\* handleAxiosError rethrowing what it does not retry
handleAxiosError_Rethrows(error, retryMethod, param) ==
    IF StatusIs(error, 429)
    THEN [kind |-> "retry", notices |-> 1, errors |-> 0, wait |-> RETRY_DELAY_MS,
          retryMethod |-> retryMethod, param |-> param]
    ELSE [kind |-> "throw", notices |-> 0, errors |-> 1, error |-> error]

\* handleAxiosError giving up on a rate-limit response
handleAxiosError_NoRetry(error, retryMethod, param) ==
    [kind |-> "return", notices |-> 0,
     errors |-> IF ~StatusIs(error, 400) /\ retryMethod # "contractCallRequest"
                THEN 1 ELSE 0,
     value |-> Null]

\* handleAxiosError retrying on a server error as on a rate-limit response
handleAxiosError_RetriesOn500(error, retryMethod, param) ==
    IF StatusIs(error, 429) \/ StatusIs(error, 500)
    THEN [kind |-> "retry", notices |-> 1, errors |-> 0, wait |-> RETRY_DELAY_MS,
          retryMethod |-> retryMethod, param |-> param]
    ELSE [kind |-> "return", notices |-> 0,
          errors |-> IF ~StatusIs(error, 400) /\ retryMethod # "contractCallRequest"
                     THEN 1 ELSE 0,
          value |-> Null]

\* handleAxiosError waiting another delay than the configured one before it retries
handleAxiosError_OtherDelay(error, retryMethod, param) ==
    IF StatusIs(error, 429)
    THEN [kind |-> "retry", notices |-> 1, errors |-> 0, wait |-> "0",
          retryMethod |-> retryMethod, param |-> param]
    ELSE [kind |-> "return", notices |-> 0,
          errors |-> IF ~StatusIs(error, 400) /\ retryMethod # "contractCallRequest"
                     THEN 1 ELSE 0,
          value |-> Null]

\* handleAxiosError logging the rate-limit response as an error
handleAxiosError_LogsRateLimit(error, retryMethod, param) ==
    IF StatusIs(error, 429)
    THEN [kind |-> "retry", notices |-> 1, errors |-> 1, wait |-> RETRY_DELAY_MS,
          retryMethod |-> retryMethod, param |-> param]
    ELSE [kind |-> "return", notices |-> 0,
          errors |-> IF ~StatusIs(error, 400) /\ retryMethod # "contractCallRequest"
                     THEN 1 ELSE 0,
          value |-> Null]

\* handleAxiosError, up to its await of Helper.wait or to its return
handleAxiosError(error, retryMethod, param) ==
    LET isRateLimitError == StatusIs(error, 429)
        isBadRequestError == StatusIs(error, 400)
    IN  IF isRateLimitError
        THEN [kind |-> "retry", notices |-> 1, errors |-> 0, wait |-> RETRY_DELAY_MS,
              retryMethod |-> retryMethod, param |-> param]
        ELSE [kind |-> "return", notices |-> 0,
              errors |-> IF ~isBadRequestError /\ retryMethod # "contractCallRequest"
                         THEN 1 ELSE 0,
              value |-> Null]

\* a catch block that passes another method as the one to retry
CatchBlock_WrongRetryMethod(method, param, error) ==
    handleAxiosError(error, "fetchContracts", param)

\* the catch block of each method: return this.handleAxiosError(error, this.<method>, <param>)
CatchBlock(method, param, error) == handleAxiosError(error, method, param)

\* a method resumed with the settled request: it returns, throws, or waits to retry
Resume(method, param, settled) ==
    LET t == TryBlock(method, settled)
    IN  IF t.kind = "return"
        THEN [kind |-> "return", notices |-> 0, errors |-> 0, value |-> t.value]
        ELSE CatchBlock(method, param, t.error)

\* a method that sends its request and goes on without awaiting it
Suspended_NoAwait(f, method, param) ==
    [f EXCEPT !.pc = "done", !.method = method, !.param = param,
              !.attempt = f.attempt + 1, !.result = Return(Undefined)]

\* the frame of a method called with param, suspended at its await
Suspended(f, method, param) ==
    [f EXCEPT !.pc = "awaitResponse", !.method = method, !.param = param,
              !.attempt = f.attempt + 1]

IdleFrame ==
    [pc |-> "idle", method |-> "none", param |-> Null, attempt |-> 0,
     origMethod |-> "none", origParam |-> Null,
     n429 |-> 0, notices |-> 0, errors |-> 0, wait |-> "none", waited |-> 0,
     history |-> <<>>, lastResponse |-> Pending, result |-> Pending]

\* the frame of an operation just called by a caller, at its first await
FirstFrame(method, param) ==
    Suspended([IdleFrame EXCEPT !.origMethod = method, !.origParam = param],
              method, param)

\* the frame of a method resumed with the settled request s: at its return (or throw),
\* or at the await of Helper.wait in handleAxiosError
OnSettled(frame, s) ==
    LET f == [frame EXCEPT !.lastResponse = s, !.history = Append(@, s),
                !.n429 = @ + (IF s.kind = "throw" /\ StatusIs(s.error, 429) THEN 1 ELSE 0)]
        r == Resume(f.method, f.param, s)
    IN  IF r.kind = "retry"
        THEN [f EXCEPT !.pc = "waiting", !.notices = @ + r.notices,
                       !.errors = @ + r.errors, !.wait = r.wait,
                       !.method = r.retryMethod, !.param = r.param]
        ELSE [f EXCEPT !.pc = "done", !.notices = @ + r.notices,
                       !.errors = @ + r.errors,
                       !.result = IF r.kind = "return" THEN Return(r.value)
                                  ELSE Throw(r.error)]

\* the frame once Helper.wait has resolved: retryMethod.call(this, param), at its await
OnTimer(frame) ==
    Suspended([frame EXCEPT !.wait = "none", !.waited = @ + 1], frame.method, frame.param)

\* a caller calls method(param) on the service: the method runs to its first await
Call(c, method, param) ==
    LET f == FirstFrame(method, param)
    IN  /\ inv' = [inv EXCEPT ![c] = f]
        /\ net' = net \cup {[caller |-> c, attempt |-> f.attempt,
                             req |-> SendOf(service, method, param)]}

----------------------------------------------------------------------------
(* The mirror node *)

Min(a, b) == IF a < b THEN a ELSE b

\* the page of the contract list that starts after position start
PageAfter(start, limit) ==
    [contracts |-> [i \in 1..(Min(start + limit, ledger) - start) |-> ContractId(start + i)],
     links |-> [next |-> IF start + limit < ledger THEN Cursor(start + limit) ELSE Null]]

\* the body of the mirror node's 200 answer to a request
ServerData(req) ==
    IF req.client = service.mirrorNodeRestClient /\ req.verb = "GET"
       /\ "limit" \in DOMAIN req.url
    THEN PageAfter(IF "after" \in DOMAIN req.url.next THEN req.url.next.after ELSE 0,
                   req.url.limit)
    ELSE IF req.client = service.mirrorNodeRestClient /\ req.verb = "GET"
            /\ "id" \in DOMAIN req.url
    THEN [contract_id |-> req.url.id, runtime_bytecode |-> "0x60"]
    ELSE IF req.client = service.mirrorNodeWeb3Client /\ req.verb = "POST"
    THEN [result |-> [t |-> "result", of |-> req.body]]
    ELSE Null

Is429(settled) == settled.kind = "throw" /\ StatusIs(settled.error, 429)

\* what the awaited axios promise can settle to
Settlements(m) ==
    {Return([status |-> 200, data |-> ServerData(m.req)]),
     Throw(AxiosError(400)), Throw(AxiosError(500)), Throw(NetworkError)}
    \cup (IF inv[m.caller].n429 < Max429 THEN {Throw(AxiosError(429))} ELSE {})

\* the awaited request settles; the method resumes and runs to its return or to the
\* await of Helper.wait in handleAxiosError
Respond(c) ==
    /\ program = "indexer"
    /\ \E m \in net :
        /\ m.caller = c
        /\ net' = net \ {m}
        /\ IF inv[c].pc = "awaitResponse" /\ inv[c].attempt = m.attempt
           THEN \E s \in Settlements(m) :
                inv' = [inv EXCEPT ![c] = OnSettled(inv[c], s)]
           ELSE UNCHANGED inv
    /\ UNCHANGED <<program, service, ledger, scan, wallet>>

\* a retry that takes the method and the parameter from a field of the service, which
\* the operation called last on the instance has overwritten
WaitDone_SharedParam(c) ==
    /\ program = "indexer"
    /\ inv[c].pc = "waiting"
    /\ LET other == CHOOSE d \in Callers : d # c
           last == IF inv[other].pc # "idle" THEN inv[other] ELSE inv[c]
           f == Suspended([inv[c] EXCEPT !.wait = "none", !.waited = @ + 1],
                          last.method, last.param)
       IN  /\ inv' = [inv EXCEPT ![c] = f]
           /\ net' = net \cup {[caller |-> c, attempt |-> f.attempt,
                                req |-> SendOf(service, f.method, f.param)]}
    /\ UNCHANGED <<program, service, ledger, scan, wallet>>

\* Helper.wait resolves: return retryMethod.call(this, param)
WaitDone(c) ==
    /\ program = "indexer"
    /\ inv[c].pc = "waiting"
    /\ LET f == OnTimer(inv[c])
       IN  /\ inv' = [inv EXCEPT ![c] = f]
           /\ net' = net \cup {[caller |-> c, attempt |-> f.attempt,
                                req |-> SendOf(service, f.method, f.param)]}
    /\ UNCHANGED <<program, service, ledger, scan, wallet>>

----------------------------------------------------------------------------
(* The direct caller: one operation at a time, any operation, any parameter *)

DirectParams(method) ==
    CASE method = "fetchContracts" -> {Null}
      [] method = "fetchContractObject" -> {ContractId(k) : k \in 1..Min(ledger, 1)}
      [] method = "contractCallRequest" -> {CallData(k) : k \in 1..Min(ledger, 1)}

DirectCall ==
    /\ program = "indexer"
    /\ inv["direct"].pc \in {"idle", "done"}
    /\ \E method \in Methods : \E param \in DirectParams(method) :
        Call("direct", method, param)
    /\ UNCHANGED <<program, service, ledger, scan, wallet>>

----------------------------------------------------------------------------
(* The scan loop:                                                          *)
(*   START -> (fetchPage) -> HAVE_PAGE -> process items (each triggers     *)
(*   fetchDetail / submitCallRequest) -> (cursor present?) -> fetchPage    *)
(*   | END                                                                 *)

ScanStart ==
    [pc |-> "START", next |-> Null, contracts |-> <<>>, item |-> 1,
     requested |-> <<>>, pages |-> <<>>, collected |-> 0]

\* the value the awaited operation resolved to (absence when it did not return one)
Resolved(c) ==
    IF inv[c].result.kind = "return" THEN inv[c].result.value ELSE Null

\* the loop goes on with the item at position item of the current page, if there is
\* one, else with the next page, if the page carried a cursor, else it ends
ScanProceed(sc) ==
    IF sc.item <= Len(sc.contracts)
    THEN /\ scan' = [sc EXCEPT !.pc = "FETCH_DETAIL"]
         /\ Call("scan", "fetchContractObject", sc.contracts[sc.item])
    ELSE IF sc.next # Null
    THEN /\ scan' = [sc EXCEPT !.pc = "FETCH_PAGE", !.requested = Append(@, sc.next)]
         /\ Call("scan", "fetchContracts", sc.next)
    ELSE /\ scan' = [sc EXCEPT !.pc = "END"]
         /\ UNCHANGED <<inv, net>>

\* START -> (fetchPage): the first page is requested with no cursor
ScanFetchFirstPage ==
    /\ program = "indexer"
    /\ scan.pc = "START"
    /\ scan' = [scan EXCEPT !.pc = "FETCH_PAGE", !.requested = Append(@, Null)]
    /\ Call("scan", "fetchContracts", Null)
    /\ UNCHANGED <<program, service, ledger, wallet>>

\* (fetchPage) -> HAVE_PAGE, or the scan stops on a failed page fetch
ScanHavePage ==
    /\ program = "indexer"
    /\ scan.pc = "FETCH_PAGE"
    /\ inv["scan"].pc = "done"
    /\ LET page == Resolved("scan")
       IN  IF page \in {Null, Undefined}
           THEN /\ scan' = [scan EXCEPT !.pc = "STOPPED"]
                /\ UNCHANGED <<inv, net>>
           ELSE ScanProceed([scan EXCEPT !.contracts = page.contracts, !.item = 1,
                                         !.next = page.links.next,
                                         !.pages = Append(@, page),
                                         !.collected = @ + Len(page.contracts)])
    /\ UNCHANGED <<program, service, ledger, wallet>>

\* fetchDetail completed: probe the contract, or skip it when there is no detail
ScanHaveDetail ==
    /\ program = "indexer"
    /\ scan.pc = "FETCH_DETAIL"
    /\ inv["scan"].pc = "done"
    /\ LET detail == Resolved("scan")
       IN  IF detail \in {Null, Undefined}
           THEN ScanProceed([scan EXCEPT !.item = @ + 1])
           ELSE /\ scan' = [scan EXCEPT !.pc = "CALL"]
                /\ Call("scan", "contractCallRequest",
                        CallData(scan.contracts[scan.item].num))
    /\ UNCHANGED <<program, service, ledger, wallet>>

\* submitCallRequest completed: the item is processed
ScanHaveCallResult ==
    /\ program = "indexer"
    /\ scan.pc = "CALL"
    /\ inv["scan"].pc = "done"
    /\ ScanProceed([scan EXCEPT !.item = @ + 1])
    /\ UNCHANGED <<program, service, ledger, wallet>>


----------------------------------------------------------------------------
(* The wallet API of the dapp playground (api/wallet/index.ts) *)

WalletOps ==
    {"getBalance", "getCurrentChainId", "requestAccount", "addEthereumChain",
     "switchToHederaTestnet"}

\* the JSON-RPC method each operation passes to walletProvider.send first
RpcMethod(op) ==
    CASE op = "getBalance" -> "eth_getBalance"
      [] op = "getCurrentChainId" -> "eth_chainId"
      [] op = "requestAccount" -> "eth_requestAccounts"
      [] op = "addEthereumChain" -> "wallet_addEthereumChain"
      [] op = "switchToHederaTestnet" -> "wallet_switchEthereumChain"

\* getBalance, once walletProvider.send has settled
getBalance(settled) ==
    IF settled.kind = "return"
    THEN [result |-> Return([balance |-> settled.value]), errors |-> 0]
    ELSE [result |-> Return([err |-> settled.error]), errors |-> 1]

\* getCurrentChainId, once walletProvider.send has settled
getCurrentChainId(settled) ==
    IF settled.kind = "return"
    THEN [result |-> Return([currentChainId |-> settled.value]), errors |-> 0]
    ELSE [result |-> Return([err |-> settled.error]), errors |-> 0]

\* requestAccount, once walletProvider.send has settled
requestAccount(settled) ==
    IF settled.kind = "return"
    THEN [result |-> Return([accounts |-> settled.value]), errors |-> 0]
    ELSE [result |-> Return([err |-> settled.error]), errors |-> 0]

\* addEthereumChain, once walletProvider.send has settled
addEthereumChain(settled) ==
    IF settled.kind = "return"
    THEN [result |-> Return([err |-> Null]), errors |-> 0]
    ELSE [result |-> Return([err |-> settled.error]), errors |-> 1]

\* whether reading error.error.code completes (it throws a TypeError when error or
\* error.error is null or undefined)
CanReadErrorCode(error) ==
    /\ error \notin {Null, Undefined}
    /\ "error" \in DOMAIN error
    /\ error.error \notin {Null, Undefined}

\* error.error.code === 4902
ErrorCodeIs4902(error) ==
    /\ "code" \in DOMAIN error.error
    /\ error.error.code = 4902

\* switchToHederaTestnet, once its wallet_switchEthereumChain request has settled:
\* it returns, throws, or calls addEthereumChain
switchToHederaTestnet(settled) ==
    IF settled.kind = "return"
    THEN [next |-> "return", result |-> Return([err |-> Null]), errors |-> 0]
    ELSE IF ~CanReadErrorCode(settled.error)
    THEN [next |-> "return", result |-> Throw(TypeError), errors |-> 0]
    ELSE IF ErrorCodeIs4902(settled.error)
    THEN [next |-> "addEthereumChain", result |-> Pending, errors |-> 0]
    ELSE [next |-> "return", result |-> Return([err |-> settled.error]), errors |-> 1]

\* switchToHederaTestnet, once the addEthereumChain it awaits has completed
switchAfterAdd(added) ==
    IF added.result.kind = "return"
    THEN [result |-> added.result, errors |-> added.errors]
    ELSE [result |-> Return([err |-> added.result.error]), errors |-> added.errors + 1]

\* the operations that return as soon as their one request has settled
WalletReturn(op, settled) ==
    CASE op = "getBalance" -> getBalance(settled)
      [] op = "getCurrentChainId" -> getCurrentChainId(settled)
      [] op = "requestAccount" -> requestAccount(settled)
      [] op = "addEthereumChain" -> addEthereumChain(settled)

IdleWallet ==
    [pc |-> "idle", op |-> "none", stack |-> <<>>, sent |-> <<>>,
     settled |-> <<>>, result |-> Pending, errors |-> 0]

\* what the injected provider's send can reject with
RejectedWith ==
    {[error |-> [code |-> 4902]], [error |-> [code |-> 4001]],
     [error |-> [message |-> "Internal JSON-RPC error."]],
     [code |-> "ACTION_REJECTED"], [message |-> "timeout"]}

ProviderSettlements ==
    {Return("0x1")} \cup {Throw(e) : e \in RejectedWith}

\* the dapp calls a wallet operation: it runs to its await of walletProvider.send
WalletCall(op) ==
    /\ program = "dapp"
    /\ wallet.pc \in {"idle", "done"}
    /\ wallet' = [IdleWallet EXCEPT !.pc = "awaitSend", !.op = op, !.stack = <<op>>,
                                    !.sent = <<RpcMethod(op)>>]
    /\ UNCHANGED <<program, service, ledger, inv, net, scan>>

\* walletProvider.send settles and the operation resumes
ProviderSettle ==
    /\ program = "dapp"
    /\ wallet.pc = "awaitSend"
    /\ \E s \in ProviderSettlements :
        LET w == [wallet EXCEPT !.settled = Append(@, s)]
            top == w.stack[Len(w.stack)]
        IN  IF top = "switchToHederaTestnet"
            THEN LET o == switchToHederaTestnet(s)
                 IN  IF o.next = "addEthereumChain"
                     THEN wallet' = [w EXCEPT !.stack = Append(@, "addEthereumChain"),
                                              !.sent = Append(@, RpcMethod("addEthereumChain"))]
                     ELSE wallet' = [w EXCEPT !.pc = "done", !.stack = <<>>,
                                              !.result = o.result, !.errors = @ + o.errors]
            ELSE LET o == WalletReturn(top, s)
                     r == IF Len(w.stack) > 1 THEN switchAfterAdd(o) ELSE o
                 IN  wallet' = [w EXCEPT !.pc = "done", !.stack = <<>>,
                                         !.result = r.result, !.errors = @ + r.errors]
    /\ UNCHANGED <<program, service, ledger, inv, net, scan>>

----------------------------------------------------------------------------

Init ==
    /\ program \in {"indexer", "dapp"}
    /\ \E limit \in (IF program = "indexer" THEN 1..MaxLimit ELSE {1}) :
        service = ContractScannerService("mirrorNodeUrl", "mirrorNodeUrlWeb3", limit)
    /\ ledger \in (IF program = "indexer" THEN 0..MaxContracts ELSE {0})
    /\ inv = [c \in Callers |-> IdleFrame]
    /\ net = {}
    /\ scan = ScanStart
    /\ wallet = IdleWallet

Next ==
    \/ DirectCall
    \/ ScanFetchFirstPage
    \/ ScanHavePage
    \/ ScanHaveDetail
    \/ ScanHaveCallResult
    \/ \E op \in WalletOps : WalletCall(op)
    \/ ProviderSettle
    \/ \E c \in Callers : Respond(c)
    \/ \E c \in Callers : WaitDone(c)

Spec == Init /\ [][Next]_vars

\* every request sent is eventually settled by axios (a response or an error), and
\* every timer started by Helper.wait eventually fires
FairSpec ==
    /\ Spec
    /\ \A c \in Callers : WF_vars(Respond(c)) /\ WF_vars(WaitDone(c))

----------------------------------------------------------------------------
(* Properties *)

Running(c) == inv[c].pc \in {"awaitResponse", "waiting"}
Done(c) == inv[c].pc = "done"
Succeeded(c) == inv[c].lastResponse.kind = "return"

\* C1: retry is transparent. An operation that completes on a success response,
\* after any number of HTTP 429 responses, returns exactly what the operation called
\* with the same arguments returns when that response is its first one.
C1_RetryIsTransparent ==
    \A c \in Callers :
        (Done(c) /\ Succeeded(c)) =>
            LET first == Resume(inv[c].origMethod, inv[c].origParam, inv[c].lastResponse)
            IN  /\ first.kind = "return"
                /\ inv[c].result = Return(first.value)

\* a call request that was rate-limited twice and then returned the result payload
C1_Witness ==
    \E c \in Callers :
        /\ Done(c) /\ Succeeded(c)
        /\ inv[c].n429 >= 2
        /\ inv[c].origMethod = "contractCallRequest"
        /\ inv[c].result.value \notin {Null, Undefined}

\* C2: every request in flight, first attempt or retry, is the request of the
\* operation the caller called with the parameter the caller gave; a running
\* operation's method and parameter never change.
C2_RetryKeepsParameters ==
    /\ \A m \in net :
        m.req = SendOf(service, inv[m.caller].origMethod, inv[m.caller].origParam)
    /\ \A c \in Callers :
        Running(c) =>
            /\ inv[c].method = inv[c].origMethod
            /\ inv[c].param = inv[c].origParam

\* the third attempt of a list request that carries a cursor is in flight
C2_Witness ==
    \E m \in net :
        /\ m.attempt >= 3
        /\ inv[m.caller].origMethod = "fetchContracts"
        /\ inv[m.caller].origParam # Null
        /\ m.req.url.next = inv[m.caller].origParam

C4_BadRequestLogging ==
    \A c \in Callers :
        (Done(c) /\ inv[c].lastResponse = Throw(AxiosError(400))) =>
            /\ inv[c].result = Return(Null)
            /\ inv[c].errors = IF inv[c].origMethod = "contractCallRequest" THEN 0 ELSE 1

\* C5: for all three operations alike, a failure that is neither an HTTP 429 nor an
\* HTTP 400 on the call-request path emits exactly one error log and returns null.
C5_UniformErrorPolicy ==
    \A c \in Callers :
        ( /\ Done(c)
          /\ inv[c].lastResponse.kind = "throw"
          /\ ~Is429(inv[c].lastResponse)
          /\ ~( /\ StatusIs(inv[c].lastResponse.error, 400)
                /\ inv[c].origMethod = "contractCallRequest") ) =>
            /\ inv[c].result = Return(Null)
            /\ inv[c].errors = 1

\* C6: rate limiting never aborts an operation. An operation completes only on a
\* response that is not an HTTP 429, each 429 is followed by a wait and a retry
\* whatever the number of 429s before it, and a running operation eventually completes
\* once the mirror node stops answering 429.
C6_RateLimitNeverAborts ==
    /\ [](\A c \in Callers :
            /\ Done(c) => ~Is429(inv[c].lastResponse)
            /\ (inv[c].pc # "idle" /\ Is429(inv[c].lastResponse)) => Running(c))
    /\ \A c \in Callers : Running(c) ~> Done(c)

\* an operation has completed on a success response after two HTTP 429 responses
C6_Witness ==
    \E c \in Callers :
        /\ Done(c) /\ Succeeded(c)
        /\ inv[c].n429 >= 2
        /\ inv[c].origMethod = "fetchContractObject"
        /\ inv[c].attempt = inv[c].n429 + 1

\* the chain of pages the mirror node serves for the configured page size: page i is
\* requested with ChainCursor(i) and is ChainPage(i)
NumPages ==
    IF ledger = 0 THEN 1
    ELSE (ledger + service.scanContractLimit - 1) \div service.scanContractLimit
ChainCursor(i) ==
    IF i = 1 THEN Null ELSE Cursor((i - 1) * service.scanContractLimit)
ChainPage(i) ==
    PageAfter((i - 1) * service.scanContractLimit, service.scanContractLimit)

\* C7: the scan calls fetchContracts for the pages of the chain in chain order, each
\* once, starting with no cursor and passing each page's links.next to the next call;
\* it requests nothing after the page whose cursor is null, and it is in its terminal
\* state only after that page: then it has got every page and every contract (3
\* contracts over 2 page requests for pages of 2 and 1 contracts).
C7_ScanVisitsEveryPageOnce ==
    /\ Len(scan.requested) <= NumPages
    /\ \A i \in 1..Len(scan.requested) : scan.requested[i] = ChainCursor(i)
    /\ Len(scan.pages) <= Len(scan.requested)
    /\ Len(scan.requested) <= Len(scan.pages) + 1
    /\ \A i \in 1..Len(scan.pages) : scan.pages[i] = ChainPage(i)
    /\ \A i \in 2..Len(scan.requested) : scan.requested[i] = scan.pages[i - 1].links.next
    /\ scan.pc = "END" =>
        /\ Len(scan.requested) = NumPages
        /\ Len(scan.pages) = NumPages
        /\ scan.pages[NumPages].links.next = Null
        /\ scan.collected = ledger
    /\ (scan.pc = "END" /\ ledger = 3 /\ service.scanContractLimit = 2) =>
        /\ Len(scan.requested) = 2
        /\ scan.collected = 3

\* the scan of 3 contracts with page size 2 has ended: a page of 2 contracts with a
\* cursor, then a page of 1 contract with no cursor
C7_Witness ==
    /\ scan.pc = "END"
    /\ Len(scan.pages) = 2
    /\ Len(scan.pages[1].contracts) = 2 /\ scan.pages[1].links.next # Null
    /\ Len(scan.pages[2].contracts) = 1 /\ scan.pages[2].links.next = Null
    /\ scan.requested = <<Null, scan.pages[1].links.next>>
    /\ scan.collected = 3

IsListRequest(req) == "limit" \in DOMAIN req.url

\* C8: every list request, first attempt or retry, asks for exactly the page size
\* given to the constructor; a list request of the scan carries the cursor of the last
\* page the scan received, unchanged, and omits the cursor only when no page has been
\* received yet (the first call of the scan); no page received holds more contracts
\* than the page size.
C8_ListRequestFromLimitAndCursor ==
    /\ \A m \in net :
        IsListRequest(m.req) =>
            /\ m.req.url.limit = service.scanContractLimit
            /\ m.req.url.limit <= MaxLimit
            /\ m.caller = "scan" =>
                /\ m.req.url.next =
                     IF scan.pages = <<>> THEN Null
                     ELSE scan.pages[Len(scan.pages)].links.next
                /\ (m.req.url.next = Null) <=> (scan.pages = <<>>)
    /\ \A i \in 1..Len(scan.pages) :
        Len(scan.pages[i].contracts) <= service.scanContractLimit

\* a retry of the scan's list request for a later page is in flight
C8_Witness ==
    \E m \in net :
        /\ m.caller = "scan"
        /\ IsListRequest(m.req)
        /\ m.attempt >= 2
        /\ Len(scan.pages) >= 2
        /\ m.req.url.next # Null

Outstanding(c) == {m \in net : m.caller = c}

\* C9: a caller has at most one request outstanding, and it is the attempt its
\* operation is awaiting: nothing is outstanding while the operation waits to retry or
\* once it has completed, so a retry is sent only after the previous response; the scan
\* requests a page only when every item of the current page has been processed, and has
\* nothing outstanding before it starts or after it stops.
C9_OneOutstandingRequest ==
    /\ \A c \in Callers : Cardinality(Outstanding(c)) <= 1
    /\ \A m \in net :
        /\ inv[m.caller].pc = "awaitResponse"
        /\ inv[m.caller].attempt = m.attempt
    /\ scan.pc = "FETCH_PAGE" => scan.item > Len(scan.contracts)
    /\ scan.pc \in {"FETCH_DETAIL", "CALL"} => scan.item <= Len(scan.contracts)
    /\ scan.pc \in {"START", "END", "STOPPED"} => Outstanding("scan") = {}

\* the scan, done with a page of two contracts, awaits a retry of the next page's request
C9_Witness ==
    /\ scan.pc = "FETCH_PAGE"
    /\ Len(scan.contracts) >= 2
    /\ scan.item > Len(scan.contracts)
    /\ \E m \in Outstanding("scan") : m.attempt >= 2 /\ IsListRequest(m.req)

\* C10: every wallet operation completes by returning a success payload or an
\* { err } value, whatever the provider's send resolves to or rejects with.
C10_WalletNeverThrows ==
    wallet.pc = "done" => wallet.result.kind = "return"

\* C11: one re-issue per HTTP 429. The requests an operation has sent number the 429
\* responses it has received plus one, or just as many while the wait before the
\* retry is running; a completed operation (after a success or a failure that is not
\* a 429) has sent exactly one request per 429 and one more, and has none outstanding.
C11_OneRetryPer429 ==
    \A c \in Callers :
        /\ inv[c].pc = "awaitResponse" => inv[c].attempt = inv[c].n429 + 1
        /\ inv[c].pc = "waiting" =>
            /\ inv[c].attempt = inv[c].n429
            /\ Outstanding(c) = {}
        /\ Done(c) =>
            /\ inv[c].attempt = inv[c].n429 + 1
            /\ Outstanding(c) = {}
        /\ (Done(c) /\ inv[c].n429 = 1) => inv[c].attempt = 2

\* a detail fetch answered 429 once and then 200 has returned the contract record with
\* its bytecode, after exactly one retry
C11_Witness ==
    \E c \in Callers :
        /\ Done(c) /\ Succeeded(c)
        /\ inv[c].origMethod = "fetchContractObject"
        /\ inv[c].n429 = 1
        /\ inv[c].attempt = 2
        /\ inv[c].result.value.runtime_bytecode = "0x60"

\* C12: each HTTP 429 starts one wait of RETRY_DELAY_MS and the retry is sent only when
\* that wait has completed. While an operation waits, the delay is RETRY_DELAY_MS, the
\* waits completed are one fewer than the 429s received and no request is outstanding;
\* otherwise no wait is running and the waits completed number the 429s received and
\* the retries sent.
C12_FixedWaitBeforeEachRetry ==
    \A c \in Callers :
        /\ inv[c].pc = "waiting" =>
            /\ inv[c].wait = RETRY_DELAY_MS
            /\ inv[c].waited = inv[c].n429 - 1
            /\ inv[c].attempt = inv[c].n429
            /\ Outstanding(c) = {}
        /\ inv[c].pc # "waiting" => inv[c].wait = "none"
        /\ (inv[c].pc = "awaitResponse" \/ Done(c)) =>
            /\ inv[c].waited = inv[c].n429
            /\ inv[c].attempt = inv[c].waited + 1

\* the second wait of an operation is running, after one completed wait and one retry
C12_Witness ==
    \E c \in Callers :
        /\ inv[c].pc = "waiting"
        /\ inv[c].n429 = 2
        /\ inv[c].waited = 1
        /\ inv[c].attempt = 2
        /\ inv[c].wait = RETRY_DELAY_MS

\* C13: transport routing is fixed per operation and kept by retries. Every request of
\* fetchContracts and of fetchContractObject, first attempt or retry, is a GET on the
\* REST client, and every request of contractCallRequest is a POST of the call
\* descriptor on the web3 client; the two clients are distinct.
C13_TransportRouting ==
    /\ service.mirrorNodeRestClient # service.mirrorNodeWeb3Client
    /\ \A m \in net :
        /\ inv[m.caller].origMethod \in {"fetchContracts", "fetchContractObject"} =>
            /\ m.req.client = service.mirrorNodeRestClient
            /\ m.req.verb = "GET"
            /\ m.req.url.path = GET_CONTRACT_ENDPOINT
        /\ inv[m.caller].origMethod = "contractCallRequest" =>
            /\ m.req.client = service.mirrorNodeWeb3Client
            /\ m.req.verb = "POST"
            /\ m.req.url.path = CONTRACT_CALL_ENDPOINT
            /\ m.req.body = inv[m.caller].origParam

\* a retry of a call request is in flight on the web3 client while a retry of a GET is
\* in flight on the REST client
C13_Witness ==
    \E m1, m2 \in net :
        /\ m1.attempt >= 2 /\ m2.attempt >= 2
        /\ inv[m1.caller].origMethod = "contractCallRequest"
        /\ m1.req.client = service.mirrorNodeWeb3Client /\ m1.req.verb = "POST"
        /\ inv[m2.caller].origMethod # "contractCallRequest"
        /\ m2.req.client = service.mirrorNodeRestClient /\ m2.req.verb = "GET"

\* the switch request of switchToHederaTestnet failed with error code 4902
SwitchFailedWith4902(settled) ==
    /\ settled.kind = "throw"
    /\ CanReadErrorCode(settled.error)
    /\ ErrorCodeIs4902(settled.error)

\* C14: switchToHederaTestnet sends an add request if and only if its switch request
\* failed with error code 4902. When the switch succeeds it returns { err: null } and
\* sends no add request; when the switch fails with code 4902 it sends exactly one add
\* request and returns { err: null } if that succeeds, { err } if it fails; when the
\* switch fails in any other way it sends no add request and returns { err: error }.
C14_AddOnlyOn4902 ==
    (wallet.op = "switchToHederaTestnet" /\ wallet.pc = "done") =>
        LET switched == wallet.settled[1]
        IN  /\ wallet.sent[1] = "wallet_switchEthereumChain"
            /\ switched.kind = "return" =>
                /\ wallet.sent = <<"wallet_switchEthereumChain">>
                /\ wallet.result = Return([err |-> Null])
            /\ SwitchFailedWith4902(switched) =>
                /\ wallet.sent = <<"wallet_switchEthereumChain", "wallet_addEthereumChain">>
                /\ Len(wallet.settled) = 2
                /\ wallet.result =
                     IF wallet.settled[2].kind = "return" THEN Return([err |-> Null])
                     ELSE Return([err |-> wallet.settled[2].error])
            /\ (switched.kind = "throw" /\ ~SwitchFailedWith4902(switched)) =>
                /\ wallet.sent = <<"wallet_switchEthereumChain">>
                /\ wallet.result = Return([err |-> switched.error])

\* C15: the outcome of a failed operation depends only on its first response that is
\* not an HTTP 429. An operation that completes on a failure F after any number of 429s
\* returns null and has logged as many errors as the same operation logs when F is its
\* first response; the 429s before F add one rate-limit notice each and no error log.
C15_FailureDependsOnLastResponse ==
    \A c \in Callers :
        (Done(c) /\ ~Succeeded(c)) =>
            LET first == Resume(inv[c].origMethod, inv[c].origParam, inv[c].lastResponse)
            IN  /\ first.kind = "return"
                /\ inv[c].result = Return(first.value)
                /\ inv[c].result = Return(Null)
                /\ inv[c].errors = first.errors
                /\ inv[c].notices = inv[c].n429

\* a list request rate-limited twice and then answered 500 has returned null with one
\* error log and two rate-limit notices
C15_Witness ==
    \E c \in Callers :
        /\ Done(c)
        /\ inv[c].origMethod = "fetchContracts"
        /\ inv[c].n429 = 2
        /\ inv[c].lastResponse = Throw(AxiosError(500))
        /\ inv[c].result = Return(Null)
        /\ inv[c].errors = 1
        /\ inv[c].notices = 2

\* an operation run alone: called with method(param), given the responses in order and
\* the Helper.wait timers that have fired
RECURSIVE Replay(_, _, _)
Replay(frame, responses, timers) ==
    IF frame.pc = "waiting" /\ timers > 0
    THEN Replay(OnTimer(frame), responses, timers - 1)
    ELSE IF frame.pc = "awaitResponse" /\ responses # <<>>
    THEN Replay(OnSettled(frame, Head(responses)), Tail(responses), timers)
    ELSE frame

RunsAlone(method, param, responses, timers) ==
    Replay(FirstFrame(method, param), responses, timers)

\* the request a frame has outstanding on a service
RequestsOf(c, this, frame) ==
    IF frame.pc = "awaitResponse"
    THEN {[caller |-> c, attempt |-> frame.attempt,
           req |-> SendOf(this, frame.method, frame.param)]}
    ELSE {}

\* C16: operations share no mutable state. Whatever another invocation on the same
\* service does in between, an invocation is where the same operation run alone is
\* after the same responses and timers (same attempt, same method and parameter, same
\* logs, same result) with the same request outstanding, built from the service as it
\* was constructed; and no step changes the service's clients or its page-size bound.
C16_NoSharedMutableState ==
    /\ [](\A c \in Callers :
            inv[c].pc # "idle" =>
                LET alone == RunsAlone(inv[c].origMethod, inv[c].origParam,
                                       inv[c].history, inv[c].waited)
                    constructed == ContractScannerService("mirrorNodeUrl",
                                       "mirrorNodeUrlWeb3", service.scanContractLimit)
                IN  /\ inv[c] = alone
                    /\ Outstanding(c) = RequestsOf(c, constructed, alone))
    /\ [][service' = service]_vars

\* two invocations are interleaved: the scan's call request waits to retry while the
\* direct caller's detail fetch, already retried, has its second retry in flight
C16_Witness ==
    /\ inv["scan"].pc = "waiting"
    /\ inv["scan"].origMethod = "contractCallRequest"
    /\ inv["scan"].n429 = 1
    /\ inv["direct"].pc = "awaitResponse"
    /\ inv["direct"].origMethod = "fetchContractObject"
    /\ inv["direct"].attempt = 3
    /\ inv["direct"].origParam # inv["scan"].origParam

====
